---- MODULE Spec2Model ----
(***************************************************************************)
(* Pulse API (solution/main.py, solution/auth.py, solution/dbmodels.py):   *)
(* the token guard, the credential handlers, the friend graph and the     *)
(* visibility rules, as a state machine over the relational store.        *)
(*                                                                         *)
(* Time.  datetime.now().timestamp() is a float; the model counts it in   *)
(* ticks, TicksPerSec ticks to the second, so int(timestamp) is           *)
(* now \div TicksPerSec.  users.updated_at holds a float (ticks), the     *)
(* token fields issued_at / expire_at hold int seconds.                   *)
(*                                                                         *)
(* Tokens.  A token is its decoded payload plus sig, whether jwt.decode   *)
(* accepts the signature.  get_current_user trusts every payload signed   *)
(* with JWT_SECRET_KEY (config.py gives the key a public default), so the *)
(* requests present, besides the tokens auth_sign_in returned, signed     *)
(* payloads {user_id, issued_at, expire_at} as create_access_token builds *)
(* them at some earlier instant.                                          *)
(*                                                                         *)
(* resp is the last HTTP response with the request that caused it; n      *)
(* flips on every request so that a repeated request is a step.           *)
(*                                                                         *)
(* reqs holds the requests in flight where a handler is followed          *)
(* statement by statement (two sessions racing on one constraint); the    *)
(* other handlers run as one step, each in its own session.               *)
(***************************************************************************)
EXTENDS Integers, Sequences, FiniteSets, TLC

VARIABLES now, users, friends, posts, post_rates, issued, reqs, resp

vars == <<now, users, friends, posts, post_rates, issued, reqs, resp>>

----------------------------------------------------------------------------
(* Bounds *)

TicksPerSec == 2
MaxTicks == 3
MaxJumps == 1

----------------------------------------------------------------------------
(* Program constants *)

ACCESS_TOKEN_EXPIRE_MINUTES == 720

None == "None"

Absent == -1

NoToken == [absent |-> TRUE]

\* detail of CredentialsException (a Russian sentence in the source)
CredentialsDetail == "invalid credentials"

InternalServerError == "Internal Server Error"

TTLSeconds == ACCESS_TOKEN_EXPIRE_MINUTES * 60

----------------------------------------------------------------------------
(* Clock *)

Timestamp(t) == t

IntTimestamp(t) == t \div TicksPerSec

MaxNow == MaxJumps * TTLSeconds * TicksPerSec + MaxTicks

Seconds == { j * TTLSeconds + k : j \in 0..MaxJumps, k \in 0..(MaxTicks \div TicksPerSec) }

----------------------------------------------------------------------------
(* Credential Verifier *)

LowerChars == {"a", "b"}

UpperChars == {"A", "B"}

DigitChars == {"1", "2"}

islower(c) == c \in LowerChars

isupper(c) == c \in UpperChars

isdigit(c) == c \in DigitChars

PasswordPolicy_nodigit(p) ==
    /\ \E i \in 1..Len(p) : islower(p[i])
    /\ \E i \in 1..Len(p) : isupper(p[i])

PasswordPolicy(p) ==
    /\ \E i \in 1..Len(p) : islower(p[i])
    /\ \E i \in 1..Len(p) : isupper(p[i])
    /\ \E i \in 1..Len(p) : isdigit(p[i])

(* bcrypt, as passlib calls it by default, reads the first 72 bytes of the  *)
(* password and ignores the rest.                                          *)
BcryptMaxBytes == 72

Truncate(password) ==
    SubSeq(password, 1,
           IF Len(password) < BcryptMaxBytes THEN Len(password) ELSE BcryptMaxBytes)

get_password_hash(password) == <<"$2b$", Truncate(password)>>

verify_password_always(plain_password, hashed_password) == TRUE

verify_password(plain_password, hashed_password) ==
    hashed_password = <<"$2b$", Truncate(plain_password)>>

----------------------------------------------------------------------------
(* Token Codec *)

create_access_token(data, t) ==
    [sig |-> TRUE,
     user_id |-> data.user_id,
     login |-> data.login,
     expire_at |-> IntTimestamp(t + TTLSeconds * TicksPerSec),
     issued_at |-> IntTimestamp(t)]

GarbageToken ==
    [sig |-> FALSE, user_id |-> Absent, login |-> None, expire_at |-> Absent, issued_at |-> Absent]

PayloadGet(v, default) == IF v = Absent THEN default ELSE v

----------------------------------------------------------------------------
(* Storage queries *)

UserIds == 1..Len(users)

UserByLogin(login) ==
    IF \E i \in UserIds : users[i].login = login
    THEN CHOOSE i \in UserIds : users[i].login = login
    ELSE 0

----------------------------------------------------------------------------
(* Authorization Guard *)

get_current_user_strict(token, t) ==
    IF ~token.sig THEN [kind |-> "401", user |-> 0]
    ELSE IF token.user_id = Absent THEN [kind |-> "401", user |-> 0]
    ELSE IF token.user_id \notin UserIds THEN [kind |-> "500", user |-> 0]
    ELSE IF \/ users[token.user_id].updated_at > PayloadGet(token.issued_at, 0) * TicksPerSec
            \/ PayloadGet(token.expire_at, 0) < IntTimestamp(t)
         THEN [kind |-> "401", user |-> 0]
    ELSE [kind |-> "ok", user |-> token.user_id]

get_current_user(token, t) ==
    IF ~token.sig THEN [kind |-> "401", user |-> 0]
    ELSE IF token.user_id = Absent THEN [kind |-> "401", user |-> 0]
    ELSE IF token.user_id \notin UserIds THEN [kind |-> "500", user |-> 0]
    ELSE IF \/ users[token.user_id].updated_at >= PayloadGet(token.issued_at, 0) * TicksPerSec
            \/ PayloadGet(token.expire_at, 0) < IntTimestamp(t)
         THEN [kind |-> "401", user |-> 0]
    ELSE [kind |-> "ok", user |-> token.user_id]

----------------------------------------------------------------------------
(* Responses *)

NoBody == [none |-> TRUE]

NoArg == [none |-> TRUE]

ReqIds == {1, 2}

NoRequests == [i \in ReqIds |-> [pc |-> "idle"]]

Reply(op, token, arg, status, reason, body) ==
    [n |-> 1 - resp.n, at |-> now, op |-> op, token |-> token, arg |-> arg,
     status |-> status, reason |-> reason, body |-> body]

Response(op, token, status, reason, body) ==
    Reply(op, token, NoArg, status, reason, body)

exception_handler(status_code, detail) ==
    IF status_code = 401 THEN [status |-> 401, reason |-> detail]
    ELSE IF status_code >= 500 THEN [status |-> status_code, reason |-> detail]
    ELSE [status |-> 400, reason |-> detail]

GuardFailure(op, token, g) ==
    IF g.kind = "401"
    THEN LET r == exception_handler(401, CredentialsDetail)
         IN  Response(op, token, r.status, r.reason, NoBody)
    ELSE Response(op, token, 500, InternalServerError, NoBody)

UserProfile(u) ==
    [login |-> u.login, email |-> u.email, countryCode |-> u.countryCode,
     isPublic |-> u.isPublic, phone |-> u.phone, image |-> u.image]

----------------------------------------------------------------------------
(* Reference data and request inputs *)

Countries == {"RU"}

Logins == {"alice", "bob"}

StrongA == <<"a", "A", "1">>

StrongB == <<"b", "B", "2">>

Weak == <<"a", "b", "1">>

RegisterBody(login, password, countryCode, isPublic) ==
    [login |-> login, password |-> password, email |-> <<login, "@">>,
     countryCode |-> countryCode, isPublic |-> isPublic, phone |-> None, image |-> None]

RegisterBodies ==
    { RegisterBody("alice", StrongA, "RU", TRUE),
      RegisterBody("alice", Weak, "RU", TRUE),
      RegisterBody("my", StrongA, "RU", TRUE),
      RegisterBody("bob", StrongA, "ZZ", TRUE) }

PresentedTokens ==
    issued
        \cup { GarbageToken }
        \cup { create_access_token([user_id |-> Absent, login |-> None], s * TicksPerSec) :
                 s \in { x \in Seconds : x = 0 } }
        \cup { create_access_token([user_id |-> u, login |-> None], s * TicksPerSec) :
                 u \in 1..(Len(users) + 1), s \in { x \in Seconds : x <= IntTimestamp(now) } }

----------------------------------------------------------------------------
(* Clock steps *)

Tick ==
    /\ now % (TTLSeconds * TicksPerSec) < MaxTicks
    /\ now' = now + 1
    /\ UNCHANGED <<users, friends, posts, post_rates, issued, reqs, resp>>

Jump ==
    /\ now \div (TTLSeconds * TicksPerSec) < MaxJumps
    /\ now' = now + TTLSeconds * TicksPerSec
    /\ UNCHANGED <<users, friends, posts, post_rates, issued, reqs, resp>>

----------------------------------------------------------------------------
(* POST /auth/register *)

UniqueViolation_login(body) == \E i \in UserIds : users[i].login = body.login

UniqueViolation(body) ==
    \E i \in UserIds :
        \/ users[i].login = body.login
        \/ users[i].email = body.email
        \/ (body.phone # None /\ users[i].phone = body.phone)

receive_before_insert(target, t) == [target EXCEPT !.updated_at = Timestamp(t)]

auth_register(body) ==
    /\ UNCHANGED <<now, friends, posts, post_rates, issued, reqs>>
    /\ IF ~PasswordPolicy(body.password)
       THEN /\ resp' = Reply("auth_register", NoToken, body, 400, "invalid password", NoBody)
            /\ UNCHANGED users
       ELSE IF body.login = "my"
       THEN /\ resp' = Reply("auth_register", NoToken, body, 400, "invalid login", NoBody)
            /\ UNCHANGED users
       ELSE IF body.countryCode \notin Countries
       THEN /\ resp' = Reply("auth_register", NoToken, body, 400, "no such country", NoBody)
            /\ UNCHANGED users
       ELSE IF UniqueViolation(body)
       THEN /\ resp' = Reply("auth_register", NoToken, body, 409, "conflict", NoBody)
            /\ UNCHANGED users
       ELSE /\ LET db_model == [body EXCEPT !.password = get_password_hash(body.password)]
                   row == receive_before_insert(
                              [login |-> db_model.login, password |-> db_model.password,
                               email |-> db_model.email, countryCode |-> db_model.countryCode,
                               isPublic |-> db_model.isPublic, phone |-> db_model.phone,
                               image |-> db_model.image, updated_at |-> Absent], now)
               IN  /\ users' = Append(users, row)
                   /\ resp' = Reply("auth_register", NoToken, body, 201, "", UserProfile(row))

----------------------------------------------------------------------------
(* POST /auth/register statement by statement, one session per request:   *)
(* the validations, the INSERT that commit() flushes, the COMMIT, and the  *)
(* 201 answer. A row inserted and not yet committed is seen by no other   *)
(* session, and an INSERT that collides with it waits for its session.    *)

Collides(row, body) ==
    \/ row.login = body.login
    \/ row.email = body.email
    \/ (body.phone # None /\ row.phone = body.phone)

UserRow(body, t) ==
    receive_before_insert(
        [login |-> body.login, password |-> get_password_hash(body.password),
         email |-> body.email, countryCode |-> body.countryCode,
         isPublic |-> body.isPublic, phone |-> body.phone,
         image |-> body.image, updated_at |-> Absent], t)

RegisterBlocked(i) ==
    \E j \in ReqIds \ {i} :
        /\ reqs[j].pc = "commit"
        /\ Collides(reqs[j].row, reqs[i].body)

register_validate(i, body) ==
    /\ reqs[i].pc = "idle"
    /\ UNCHANGED <<now, users, friends, posts, post_rates, issued>>
    /\ IF ~PasswordPolicy(body.password)
       THEN /\ resp' = Reply("auth_register", NoToken, body, 400, "invalid password", NoBody)
            /\ UNCHANGED reqs
       ELSE IF body.login = "my"
       THEN /\ resp' = Reply("auth_register", NoToken, body, 400, "invalid login", NoBody)
            /\ UNCHANGED reqs
       ELSE IF body.countryCode \notin Countries
       THEN /\ resp' = Reply("auth_register", NoToken, body, 400, "no such country", NoBody)
            /\ UNCHANGED reqs
       ELSE /\ reqs' = [reqs EXCEPT ![i] = [pc |-> "flush", body |-> body]]
            /\ UNCHANGED resp

register_flush(i) ==
    /\ reqs[i].pc = "flush"
    /\ ~RegisterBlocked(i)
    /\ UNCHANGED <<now, users, friends, posts, post_rates, issued>>
    /\ IF UniqueViolation(reqs[i].body)
       THEN /\ resp' = Reply("auth_register", NoToken, reqs[i].body, 409, "conflict", NoBody)
            /\ reqs' = [reqs EXCEPT ![i] = [pc |-> "idle"]]
       ELSE /\ reqs' = [reqs EXCEPT ![i] = [pc |-> "commit", body |-> reqs[i].body,
                                            row |-> UserRow(reqs[i].body, now)]]
            /\ UNCHANGED resp

register_commit(i) ==
    /\ reqs[i].pc = "commit"
    /\ users' = Append(users, reqs[i].row)
    /\ reqs' = [reqs EXCEPT ![i].pc = "created"]
    /\ UNCHANGED <<now, friends, posts, post_rates, issued, resp>>

register_created(i) ==
    /\ reqs[i].pc = "created"
    /\ resp' = Reply("auth_register", NoToken, reqs[i].body, 201, "", UserProfile(reqs[i].row))
    /\ reqs' = [reqs EXCEPT ![i] = [pc |-> "idle"]]
    /\ UNCHANGED <<now, users, friends, posts, post_rates, issued>>

----------------------------------------------------------------------------
(* POST /auth/sign-in *)

SignInBody(login, password) == [login |-> login, password |-> password]

auth_sign_in(login, password) ==
    /\ UNCHANGED <<now, users, friends, posts, post_rates, reqs>>
    /\ LET user == UserByLogin(login)
       IN  IF user = 0 \/ ~verify_password(password, users[user].password)
           THEN /\ resp' = Reply("auth_sign_in", NoToken, SignInBody(login, password), 401, "user not found", NoBody)
                /\ UNCHANGED issued
           ELSE LET token == create_access_token(
                                 [login |-> users[user].login, user_id |-> Absent], now)
                IN  /\ resp' = Reply("auth_sign_in", NoToken, SignInBody(login, password), 200, "", token)
                    /\ issued' = {token}

----------------------------------------------------------------------------
(* GET /me/profile *)

get_my_profile(token) ==
    /\ UNCHANGED <<now, users, friends, posts, post_rates, issued, reqs>>
    /\ LET g == get_current_user(token, now)
       IN  IF g.kind # "ok"
           THEN resp' = GuardFailure("get_my_profile", token, g)
           ELSE resp' = Response("get_my_profile", token, 200, "", UserProfile(users[g.user]))

----------------------------------------------------------------------------
(* POST /me/updatePassword *)

UpdatePasswordBody(oldPassword, newPassword) ==
    [oldPassword |-> oldPassword, newPassword |-> newPassword]

update_password(token, oldPassword, newPassword) ==
    /\ UNCHANGED <<now, friends, posts, post_rates, issued, reqs>>
    /\ LET g == get_current_user(token, now)
       IN  IF g.kind # "ok"
           THEN /\ resp' = GuardFailure("update_password", token, g)
                /\ UNCHANGED users
           ELSE IF ~PasswordPolicy(newPassword)
           THEN /\ resp' = Reply("update_password", token, UpdatePasswordBody(oldPassword, newPassword), 400, "invalid password", NoBody)
                /\ UNCHANGED users
           ELSE IF ~verify_password(oldPassword, users[g.user].password)
           THEN /\ resp' = Reply("update_password", token, UpdatePasswordBody(oldPassword, newPassword), 403, "invalid old password", NoBody)
                /\ UNCHANGED users
           ELSE /\ users' = [users EXCEPT
                                ![g.user].password = get_password_hash(newPassword),
                                ![g.user].updated_at = Timestamp(now)]
                /\ resp' = Reply("update_password", token, UpdatePasswordBody(oldPassword, newPassword), 200, "", [status |-> "ok"])

----------------------------------------------------------------------------
(* The credential life cycle, from an empty store *)

Init ==
    /\ now = 0
    /\ users = <<>>
    /\ friends = {}
    /\ posts = <<>>
    /\ post_rates = {}
    /\ issued = {}
    /\ reqs = NoRequests
    /\ resp = [n |-> 0, at |-> 0, op |-> "none", token |-> NoToken, arg |-> NoArg, status |-> 0,
               reason |-> "", body |-> NoBody]

Next ==
    \/ Tick
    \/ Jump
    \/ \E body \in RegisterBodies : auth_register(body)
    \/ \E l \in Logins, p \in {StrongA, StrongB} : auth_sign_in(l, p)
    \/ \E token \in PresentedTokens : get_my_profile(token)
    \/ \E token \in PresentedTokens, old \in {StrongA, StrongB}, new \in {StrongB, Weak} :
           update_password(token, old, new)

Spec == Init /\ [][Next]_vars

----------------------------------------------------------------------------
(* Two registrations in flight at once, colliding on login, email or phone *)

WithContact(body, email, phone) == [body EXCEPT !.email = email, !.phone = phone]

RaceBodies ==
    { WithContact(RegisterBody("alice", StrongA, "RU", TRUE), <<"alice", "@">>, "+1"),
      WithContact(RegisterBody("alice", StrongB, "RU", TRUE), <<"al", "@">>, None),
      WithContact(RegisterBody("bob", StrongA, "RU", TRUE), <<"alice", "@">>, None),
      WithContact(RegisterBody("carol", StrongA, "RU", TRUE), <<"carol", "@">>, "+1"),
      WithContact(RegisterBody("dave", StrongA, "RU", FALSE), <<"dave", "@">>, None),
      RegisterBody("erin", Weak, "RU", TRUE),
      RegisterBody("erin", StrongA, "ZZ", TRUE) }

RegisterNext ==
    \/ \E i \in ReqIds, body \in RaceBodies : register_validate(i, body)
    \/ \E i \in ReqIds : register_flush(i)
    \/ \E i \in ReqIds : register_commit(i)
    \/ \E i \in ReqIds : register_created(i)

SpecRegister == Init /\ [][RegisterNext]_vars

----------------------------------------------------------------------------
(* Friend edges: rows of the friends table *)

Edge(whoadded_id, added_id, added_at) ==
    [whoadded_id |-> whoadded_id, added_id |-> added_id, added_at |-> added_at]

HasEdge_symmetric(whoadded_id, added_id) ==
    \E e \in friends :
        \/ e.whoadded_id = whoadded_id /\ e.added_id = added_id
        \/ e.whoadded_id = added_id /\ e.added_id = whoadded_id

HasEdge(whoadded_id, added_id) ==
    \E e \in friends : e.whoadded_id = whoadded_id /\ e.added_id = added_id

FriendsOf(user) == { e \in friends : e.whoadded_id = user }

rfc3339(t) == <<"rfc3339", IntTimestamp(t)>>

Slice(seq, offset, limit) ==
    LET hi == IF offset + limit < Len(seq) THEN offset + limit ELSE Len(seq)
    IN  IF offset >= hi THEN <<>> ELSE SubSeq(seq, offset + 1, hi)

Enumerations(S) ==
    { f \in [1..Cardinality(S) -> S] : \A i, j \in 1..Cardinality(S) : i # j => f[i] # f[j] }

OrderedFriends(user) ==
    { f \in Enumerations(FriendsOf(user)) :
        \A i, j \in 1..Len(f) : i < j => f[i].added_at <= f[j].added_at }

----------------------------------------------------------------------------
(* GET /friends *)

friends_list(token, limit, offset) ==
    /\ UNCHANGED <<now, users, friends, posts, post_rates, issued, reqs>>
    /\ LET g == get_current_user(token, now)
       IN  IF g.kind # "ok"
           THEN resp' = GuardFailure("friends_list", token, g)
           ELSE \E f \in OrderedFriends(g.user) :
                    LET page == Slice(f, offset, limit)
                    IN  resp' = Reply("friends_list", token,
                                      [limit |-> limit, offset |-> offset], 200, "",
                                      [items |-> [i \in 1..Len(page) |->
                                                    [login |-> users[page[i].added_id].login,
                                                     addedAt |-> rfc3339(page[i].added_at)]]])

----------------------------------------------------------------------------
(* POST /friends/add *)

IsSelf_unchecked(login, current_user) == FALSE

IsSelf(login, current_user) == login = users[current_user].login

AppendFriend_readd(current_user, user_to_add, t) ==
    { e \in friends : ~(e.whoadded_id = current_user /\ e.added_id = user_to_add) }
        \cup {Edge(current_user, user_to_add, t)}

AppendFriend(current_user, user_to_add, t) ==
    IF HasEdge(current_user, user_to_add)
    THEN friends
    ELSE friends \cup {Edge(current_user, user_to_add, t)}

friends_add(token, login) ==
    /\ UNCHANGED <<now, users, posts, post_rates, issued, reqs>>
    /\ LET g == get_current_user(token, now)
           user_to_add == UserByLogin(login)
       IN  IF g.kind # "ok"
           THEN /\ resp' = GuardFailure("friends_add", token, g)
                /\ UNCHANGED friends
           ELSE IF IsSelf(login, g.user)
           THEN /\ resp' = Reply("friends_add", token, [login |-> login], 200, "",
                                 [status |-> "ok"])
                /\ UNCHANGED friends
           ELSE IF user_to_add = 0
           THEN /\ resp' = Reply("friends_add", token, [login |-> login], 404,
                                 "user not found", NoBody)
                /\ UNCHANGED friends
           ELSE /\ friends' = AppendFriend(g.user, user_to_add, now)
                /\ resp' = Reply("friends_add", token, [login |-> login], 200, "",
                                 [status |-> "ok"])

----------------------------------------------------------------------------
(* POST /friends/add statement by statement, one session per request: the  *)
(* reads (guard, self check, lookup of the login), the INSERT into friends *)
(* that commit() flushes, the COMMIT, and the answer. The append to the    *)
(* dynamic relationship always queues an INSERT; (whoadded_id, added_id)   *)
(* is the primary key of friends, so the INSERT fails when the edge is     *)
(* stored and waits while another session holds it uncommitted. The        *)
(* failure is swallowed by the bare except around commit().                *)

FriendBlocked(i) ==
    \E j \in ReqIds \ {i} :
        /\ reqs[j].pc = "commit"
        /\ reqs[j].user_id = reqs[i].user_id
        /\ reqs[j].added_id = reqs[i].added_id

commit_failed_raise(request) == [request EXCEPT !.pc = "raise", !.wrote = "conflict"]

commit_failed(request) == [request EXCEPT !.pc = "answer", !.wrote = "conflict"]

friends_add_read(i, token, login) ==
    /\ reqs[i].pc = "idle"
    /\ UNCHANGED <<now, users, friends, posts, post_rates, issued>>
    /\ LET g == get_current_user(token, now)
           user_to_add == UserByLogin(login)
       IN  IF g.kind # "ok"
           THEN /\ resp' = GuardFailure("friends_add", token, g)
                /\ UNCHANGED reqs
           ELSE IF IsSelf(login, g.user)
           THEN /\ resp' = Reply("friends_add", token, [login |-> login], 200, "",
                                 [status |-> "ok"])
                /\ UNCHANGED reqs
           ELSE IF user_to_add = 0
           THEN /\ resp' = Reply("friends_add", token, [login |-> login], 404,
                                 "user not found", NoBody)
                /\ UNCHANGED reqs
           ELSE /\ reqs' = [reqs EXCEPT ![i] =
                                [pc |-> "flush", token |-> token, login |-> login,
                                 user_id |-> g.user, added_id |-> user_to_add,
                                 added_at |-> Absent, wrote |-> "nothing"]]
                /\ UNCHANGED resp

friends_add_flush(i) ==
    /\ reqs[i].pc = "flush"
    /\ ~FriendBlocked(i)
    /\ reqs' = [reqs EXCEPT ![i] =
                    IF HasEdge(reqs[i].user_id, reqs[i].added_id)
                    THEN commit_failed(reqs[i])
                    ELSE [reqs[i] EXCEPT !.pc = "commit", !.added_at = now,
                                         !.wrote = "insert"]]
    /\ UNCHANGED <<now, users, friends, posts, post_rates, issued, resp>>

friends_add_commit(i) ==
    /\ reqs[i].pc = "commit"
    /\ friends' = friends \cup {Edge(reqs[i].user_id, reqs[i].added_id, reqs[i].added_at)}
    /\ reqs' = [reqs EXCEPT ![i].pc = "answer"]
    /\ UNCHANGED <<now, users, posts, post_rates, issued, resp>>

friends_add_answer(i) ==
    /\ reqs[i].pc \in {"answer", "raise"}
    /\ resp' = IF reqs[i].pc = "raise"
               THEN Reply("friends_add", reqs[i].token, [login |-> reqs[i].login], 500,
                          InternalServerError, NoBody)
               ELSE Reply("friends_add", reqs[i].token, [login |-> reqs[i].login], 200, "",
                          [status |-> "ok"])
    /\ reqs' = [reqs EXCEPT ![i] = [pc |-> "idle"]]
    /\ UNCHANGED <<now, users, friends, posts, post_rates, issued>>

----------------------------------------------------------------------------
(* POST /friends/remove *)

WithoutFriend_mutual(current_user, user_to_add) ==
    { e \in friends :
        /\ ~(e.whoadded_id = current_user /\ e.added_id = user_to_add)
        /\ ~(e.whoadded_id = user_to_add /\ e.added_id = current_user) }

WithoutFriend(current_user, user_to_add) ==
    { e \in friends : ~(e.whoadded_id = current_user /\ e.added_id = user_to_add) }

friends_remove_unguarded(token, login) ==
    /\ UNCHANGED <<now, users, posts, post_rates, issued, reqs>>
    /\ LET g == get_current_user(token, now)
           user_to_add == UserByLogin(login)
       IN  /\ friends' = IF token.user_id \in UserIds /\ user_to_add # 0
                          THEN WithoutFriend(token.user_id, user_to_add)
                          ELSE friends
           /\ resp' = IF g.kind # "ok"
                      THEN GuardFailure("friends_remove", token, g)
                      ELSE Reply("friends_remove", token, [login |-> login], 200, "",
                                 [status |-> "ok"])

friends_remove(token, login) ==
    /\ UNCHANGED <<now, users, posts, post_rates, issued, reqs>>
    /\ LET g == get_current_user(token, now)
           user_to_add == UserByLogin(login)
       IN  IF g.kind # "ok"
           THEN /\ resp' = GuardFailure("friends_remove", token, g)
                /\ UNCHANGED friends
           ELSE IF user_to_add = 0
           THEN /\ resp' = Reply("friends_remove", token, [login |-> login], 200, "",
                                 [status |-> "ok"])
                /\ UNCHANGED friends
           ELSE /\ friends' = WithoutFriend(g.user, user_to_add)
                /\ resp' = Reply("friends_remove", token, [login |-> login], 200, "",
                                 [status |-> "ok"])

----------------------------------------------------------------------------
(* GET /profiles/{login} *)

ProfileDenied_reversed(current_user, login, user_account) ==
    \/ user_account = 0
    \/ /\ ~users[user_account].isPublic
       /\ login # users[current_user].login
       /\ ~HasEdge(current_user, user_account)

ProfileDenied(current_user, login, user_account) ==
    \/ user_account = 0
    \/ /\ ~users[user_account].isPublic
       /\ login # users[current_user].login
       /\ ~HasEdge(user_account, current_user)

get_profile(token, login) ==
    /\ UNCHANGED <<now, users, friends, posts, post_rates, issued, reqs>>
    /\ LET g == get_current_user(token, now)
           user_account == UserByLogin(login)
       IN  IF g.kind # "ok"
           THEN resp' = GuardFailure("get_profile", token, g)
           ELSE IF ProfileDenied(g.user, login, user_account)
           THEN resp' = Reply("get_profile", token, [login |-> login], 403,
                              "access denied", NoBody)
           ELSE resp' = Reply("get_profile", token, [login |-> login], 200, "",
                              UserProfile(users[user_account]))

----------------------------------------------------------------------------
(* PATCH /me/profile *)

PatchFields == {"countryCode", "isPublic", "phone", "image"}

body_without_none_extra(body) == DOMAIN body

body_without_none(body) == DOMAIN body \cap PatchFields

SetAttrs(user, body) ==
    [k \in DOMAIN user |->
        IF k \in body_without_none(body) THEN body[k] ELSE user[k]]

PatchViolation(current_user, patched) ==
    \E i \in UserIds \ {current_user} :
        patched.phone # None /\ users[i].phone = patched.phone

patch_my_profile(token, body) ==
    /\ UNCHANGED <<now, friends, posts, post_rates, issued, reqs>>
    /\ LET g == get_current_user(token, now)
       IN  IF g.kind # "ok"
           THEN /\ resp' = GuardFailure("patch_my_profile", token, g)
                /\ UNCHANGED users
           ELSE IF body_without_none(body) = {}
           THEN /\ resp' = Reply("patch_my_profile", token, body, 400, "no fields", NoBody)
                /\ UNCHANGED users
           ELSE LET patched == SetAttrs(users[g.user], body)
                IN  IF "countryCode" \in body_without_none(body)
                       /\ PatchViolation(g.user, patched)
                    THEN /\ resp' = Reply("patch_my_profile", token, body, 500,
                                          InternalServerError, NoBody)
                         /\ UNCHANGED users
                    ELSE IF "countryCode" \in body_without_none(body)
                            /\ body.countryCode \notin Countries
                    THEN /\ resp' = Reply("patch_my_profile", token, body, 400,
                                          "no such country", NoBody)
                         /\ UNCHANGED users
                    ELSE IF PatchViolation(g.user, patched)
                    THEN /\ resp' = Reply("patch_my_profile", token, body, 409,
                                          "conflict", NoBody)
                         /\ UNCHANGED users
                    ELSE /\ users' = [users EXCEPT ![g.user] = patched]
                         /\ resp' = Reply("patch_my_profile", token, body, 200, "",
                                          UserProfile(patched))

----------------------------------------------------------------------------
(* PATCH /me/profile statement by statement inside its session. get_session *)
(* opens the session in a with block and yields it; the guard and the      *)
(* handler use it; when the handler returns or raises the with block       *)
(* closes the session, which rolls back whatever was not committed. The    *)
(* fields set on current_user make it dirty in the session until a flush   *)
(* sends the UPDATE (at the country query, or at commit) and are stored    *)
(* for other sessions only by the COMMIT.                                  *)

Outcome(arg, status, reason, body) ==
    [arg |-> arg, status |-> status, reason |-> reason, body |-> body]

Returns(request, status, reason, body) ==
    [request EXCEPT !.pc = "close", !.outcome = Outcome(request.body, status, reason, body)]

session_close_commit(request) ==
    IF request.dirty
    THEN [users EXCEPT ![request.user_id] = SetAttrs(users[request.user_id], request.body)]
    ELSE users

session_close(request) == users

PatchBlocked(i) ==
    \E j \in ReqIds \ {i} :
        /\ reqs[j].pc \in {"country", "commit", "close"}
        /\ reqs[j].flushed
        /\ \/ reqs[j].user_id = reqs[i].user_id
           \/ /\ "phone" \in DOMAIN reqs[i].body
              /\ "phone" \in DOMAIN reqs[j].body
              /\ reqs[j].body.phone = reqs[i].body.phone

patch_open(i, token, body) ==
    /\ reqs[i].pc = "idle"
    /\ reqs' = [reqs EXCEPT ![i] =
                    [pc |-> "guard", token |-> token, body |-> body, user_id |-> 0,
                     dirty |-> FALSE, flushed |-> FALSE,
                     outcome |-> Outcome(NoArg, 0, "", NoBody)]]
    /\ UNCHANGED <<now, users, friends, posts, post_rates, issued, resp>>

patch_guard(i) ==
    /\ reqs[i].pc = "guard"
    /\ LET g == get_current_user(reqs[i].token, now)
           failure == GuardFailure("patch_my_profile", reqs[i].token, g)
       IN  reqs' = [reqs EXCEPT ![i] =
                       IF g.kind # "ok"
                       THEN [reqs[i] EXCEPT !.pc = "close",
                                            !.outcome = Outcome(NoArg, failure.status,
                                                                failure.reason, NoBody)]
                       ELSE [reqs[i] EXCEPT !.pc = "setattr", !.user_id = g.user]]
    /\ UNCHANGED <<now, users, friends, posts, post_rates, issued, resp>>

patch_setattr(i) ==
    /\ reqs[i].pc = "setattr"
    /\ reqs' = [reqs EXCEPT ![i] =
                    IF body_without_none(reqs[i].body) = {}
                    THEN Returns(reqs[i], 400, "no fields", NoBody)
                    ELSE [reqs[i] EXCEPT
                            !.pc = IF "countryCode" \in body_without_none(reqs[i].body)
                                   THEN "country" ELSE "commit",
                            !.dirty = TRUE]]
    /\ UNCHANGED <<now, users, friends, posts, post_rates, issued, resp>>

patch_country(i) ==
    /\ reqs[i].pc = "country"
    /\ ~PatchBlocked(i)
    /\ reqs' = [reqs EXCEPT ![i] =
                    IF PatchViolation(reqs[i].user_id,
                                      SetAttrs(users[reqs[i].user_id], reqs[i].body))
                    THEN Returns(reqs[i], 500, InternalServerError, NoBody)
                    ELSE IF reqs[i].body.countryCode \notin Countries
                    THEN [Returns(reqs[i], 400, "no such country", NoBody)
                             EXCEPT !.flushed = TRUE]
                    ELSE [reqs[i] EXCEPT !.pc = "commit", !.flushed = TRUE]]
    /\ UNCHANGED <<now, users, friends, posts, post_rates, issued, resp>>

patch_commit(i) ==
    /\ reqs[i].pc = "commit"
    /\ reqs[i].flushed \/ ~PatchBlocked(i)
    /\ LET patched == SetAttrs(users[reqs[i].user_id], reqs[i].body)
       IN  IF PatchViolation(reqs[i].user_id, patched)
           THEN /\ reqs' = [reqs EXCEPT ![i] = Returns(reqs[i], 409, "conflict", NoBody)]
                /\ UNCHANGED users
           ELSE /\ users' = [users EXCEPT ![reqs[i].user_id] = patched]
                /\ reqs' = [reqs EXCEPT ![i] =
                                [Returns(reqs[i], 200, "", UserProfile(patched))
                                    EXCEPT !.dirty = FALSE, !.flushed = FALSE]]
    /\ UNCHANGED <<now, friends, posts, post_rates, issued, resp>>

patch_close(i) ==
    /\ reqs[i].pc = "close"
    /\ users' = session_close(reqs[i])
    /\ resp' = Reply("patch_my_profile", reqs[i].token, reqs[i].outcome.arg,
                     reqs[i].outcome.status, reqs[i].outcome.reason, reqs[i].outcome.body)
    /\ reqs' = [reqs EXCEPT ![i] = [pc |-> "idle"]]
    /\ UNCHANGED <<now, friends, posts, post_rates, issued>>

----------------------------------------------------------------------------
(* Posts and reactions *)

MaxPosts == 1

PostIds == 1..Len(posts)

(* DBUser.posts is loaded by a SELECT without ORDER BY: the rows of the    *)
(* owner come in an order the database chooses.                            *)
PostsOf(user) ==
    Enumerations({ posts[i] : i \in { j \in PostIds : posts[j].owner_id = user } })

likesCount_any(post) ==
    Cardinality({ r \in post_rates : r.post_id = post.id })

likesCount(post) ==
    Cardinality({ r \in post_rates : r.post_id = post.id /\ r.rate_type = 1 })

dislikesCount(post) ==
    Cardinality({ r \in post_rates : r.post_id = post.id /\ r.rate_type = -1 })

Post(post, tags) ==
    [id |-> post.id, content |-> post.content, author |-> users[post.owner_id].login,
     createdAt |-> rfc3339(post.createdAt), tags |-> tags,
     likesCount |-> likesCount(post), dislikesCount |-> dislikesCount(post)]

TagOrders ==
    { f \in [PostIds -> UNION { Enumerations(posts[i].tags) : i \in PostIds }] :
        \A i \in PostIds : f[i] \in Enumerations(posts[i].tags) }

Feed(rows, limit, offset, order) ==
    LET page == Slice(rows, offset, limit)
    IN  [i \in 1..Len(page) |-> Post(page[i], order[page[i].id])]

PostDenied_reversed(current_user, owner) ==
    /\ ~users[owner].isPublic
    /\ owner # current_user
    /\ ~HasEdge(current_user, owner)

PostDenied(current_user, owner) ==
    /\ ~users[owner].isPublic
    /\ owner # current_user
    /\ ~HasEdge(owner, current_user)

----------------------------------------------------------------------------
(* GET /posts/feed/my *)

get_my_feed(token, limit, offset) ==
    /\ UNCHANGED <<now, users, friends, posts, post_rates, issued, reqs>>
    /\ LET g == get_current_user(token, now)
       IN  IF g.kind # "ok"
           THEN resp' = GuardFailure("get_my_feed", token, g)
           ELSE \E order \in TagOrders, rows \in PostsOf(g.user) :
                    resp' = Reply("get_my_feed", token, [limit |-> limit, offset |-> offset],
                                  200, "", [items |-> Feed(rows, limit, offset, order)])

----------------------------------------------------------------------------
(* GET /posts/feed/{login} *)

FeedDenied(current_user, user) ==
    \/ user = 0
    \/ PostDenied(current_user, user)

get_feed_by_others(token, login, limit, offset) ==
    /\ UNCHANGED <<now, users, friends, posts, post_rates, issued, reqs>>
    /\ LET g == get_current_user(token, now)
           user == UserByLogin(login)
           arg == [login |-> login, limit |-> limit, offset |-> offset]
       IN  IF g.kind # "ok"
           THEN resp' = GuardFailure("get_feed_by_others", token, g)
           ELSE IF FeedDenied(g.user, user)
           THEN resp' = Reply("get_feed_by_others", token, arg, 404, "posts not found", NoBody)
           ELSE \E order \in TagOrders, rows \in PostsOf(user) :
                    resp' = Reply("get_feed_by_others", token, arg, 200, "",
                                  [items |-> Feed(rows, limit, offset, order)])

----------------------------------------------------------------------------
(* POST /posts/new *)

(* The DBTag rows built for a post: one per element of set(body.tags), in  *)
(* the order the set yields them. (tag, post_id) is the primary key of     *)
(* tags, so a list that held one tag twice would fail at commit.           *)
DBTags_list(tags) == { tags }

DBTags(tags) == Enumerations({ tags[i] : i \in 1..Len(tags) })

TagKeyViolation(rows) == \E i, j \in 1..Len(rows) : i # j /\ rows[i] = rows[j]

submit_post(token, content, tags) ==
    /\ UNCHANGED <<now, users, friends, post_rates, issued, reqs>>
    /\ LET g == get_current_user(token, now)
           arg == [content |-> content, tags |-> tags]
       IN  IF g.kind # "ok"
           THEN /\ resp' = GuardFailure("submit_post", token, g)
                /\ UNCHANGED posts
           ELSE /\ Len(posts) < MaxPosts
                /\ \E rows \in DBTags(tags) :
                       IF TagKeyViolation(rows)
                       THEN /\ resp' = Reply("submit_post", token, arg, 500,
                                             InternalServerError, NoBody)
                            /\ UNCHANGED posts
                       ELSE LET new_post == [id |-> Len(posts) + 1, content |-> content,
                                             owner_id |-> g.user, createdAt |-> now,
                                             tags |-> { rows[i] : i \in 1..Len(rows) }]
                            IN  /\ posts' = Append(posts, new_post)
                                /\ resp' = Reply("submit_post", token, arg, 200, "",
                                                 Post(new_post, rows))

----------------------------------------------------------------------------
(* GET /posts/{post_id} *)

PostLookupDenied_exists(current_user, post_id) == post_id \notin PostIds

PostLookupDenied(current_user, post_id) ==
    \/ post_id \notin PostIds
    \/ PostDenied(current_user, posts[post_id].owner_id)

get_post_by_id(token, post_id) ==
    /\ UNCHANGED <<now, users, friends, posts, post_rates, issued, reqs>>
    /\ LET g == get_current_user(token, now)
       IN  IF g.kind # "ok"
           THEN resp' = GuardFailure("get_post_by_id", token, g)
           ELSE IF PostLookupDenied(g.user, post_id)
           THEN resp' = Reply("get_post_by_id", token, [post_id |-> post_id], 404,
                              "post not found", NoBody)
           ELSE \E tl \in Enumerations(posts[post_id].tags) :
                    resp' = Reply("get_post_by_id", token, [post_id |-> post_id], 200, "",
                                  Post(posts[post_id], tl))

----------------------------------------------------------------------------
(* POST /posts/{post_id}/like, POST /posts/{post_id}/dislike *)

Upsert_insert(user_id, post_id, rate_type) ==
    post_rates \cup { [user_id |-> user_id, post_id |-> post_id, rate_type |-> rate_type] }

Upsert(user_id, post_id, rate_type) ==
    { r \in post_rates : ~(r.user_id = user_id /\ r.post_id = post_id) }
        \cup { [user_id |-> user_id, post_id |-> post_id, rate_type |-> rate_type] }

RatePost(op, token, post_id, rate_type) ==
    /\ UNCHANGED <<now, users, friends, posts, issued, reqs>>
    /\ LET g == get_current_user(token, now)
       IN  IF g.kind # "ok"
           THEN /\ resp' = GuardFailure(op, token, g)
                /\ UNCHANGED post_rates
           ELSE IF PostLookupDenied(g.user, post_id)
           THEN /\ resp' = Reply(op, token, [post_id |-> post_id], 404,
                                 "post not found", NoBody)
                /\ UNCHANGED post_rates
           ELSE /\ post_rates' = Upsert(g.user, post_id, rate_type)
                /\ \E tl \in Enumerations(posts[post_id].tags) :
                     resp' = Reply(op, token, [post_id |-> post_id], 200, "",
                                 [Post(posts[post_id], tl) EXCEPT
                                    !.likesCount = Cardinality({ r \in post_rates' :
                                        r.post_id = post_id /\ r.rate_type = 1 }),
                                    !.dislikesCount = Cardinality({ r \in post_rates' :
                                        r.post_id = post_id /\ r.rate_type = -1 })])

dislike_post(token, post_id) == RatePost("dislike_post", token, post_id, -1)

like_post(token, post_id) == RatePost("like_post", token, post_id, 1)

----------------------------------------------------------------------------
(* The same two handlers statement by statement, one session per request: *)
(* the reads (guard, post lookup, visibility), the INSERT .. ON CONFLICT   *)
(* DO UPDATE, the COMMIT, and the refresh that builds the response.        *)
(* Until its COMMIT a session's row is seen by no other session, and a    *)
(* statement that touches a key another session has written and not yet   *)
(* committed waits for that session.                                       *)

HasRate(user_id, post_id) ==
    \E r \in post_rates : r.user_id = user_id /\ r.post_id = post_id

RateBlocked_never(i) == FALSE

RateBlocked(i) ==
    \E j \in ReqIds \ {i} :
        /\ reqs[j].pc = "commit"
        /\ reqs[j].user_id = reqs[i].user_id
        /\ reqs[j].post_id = reqs[i].post_id

rate_read(i, op, token, post_id, rate_type) ==
    /\ reqs[i].pc = "idle"
    /\ UNCHANGED <<now, users, friends, posts, post_rates, issued>>
    /\ LET g == get_current_user(token, now)
       IN  IF g.kind # "ok"
           THEN /\ resp' = GuardFailure(op, token, g)
                /\ UNCHANGED reqs
           ELSE IF PostLookupDenied(g.user, post_id)
           THEN /\ resp' = Reply(op, token, [post_id |-> post_id], 404,
                                 "post not found", NoBody)
                /\ UNCHANGED reqs
           ELSE /\ reqs' = [reqs EXCEPT ![i] =
                                [pc |-> "execute", op |-> op, token |-> token,
                                 user_id |-> g.user, post_id |-> post_id,
                                 rate_type |-> rate_type, wrote |-> "nothing"]]
                /\ UNCHANGED resp

rate_execute(i) ==
    /\ reqs[i].pc = "execute"
    /\ ~RateBlocked(i)
    /\ reqs' = [reqs EXCEPT ![i].pc = "commit",
                            ![i].wrote = IF HasRate(reqs[i].user_id, reqs[i].post_id)
                                         THEN "update" ELSE "insert"]
    /\ UNCHANGED <<now, users, friends, posts, post_rates, issued, resp>>

rate_commit(i) ==
    /\ reqs[i].pc = "commit"
    /\ UNCHANGED <<now, users, friends, posts, issued>>
    /\ IF reqs[i].wrote = "insert" /\ HasRate(reqs[i].user_id, reqs[i].post_id)
       THEN /\ resp' = Reply(reqs[i].op, reqs[i].token, [post_id |-> reqs[i].post_id],
                             500, InternalServerError, NoBody)
            /\ reqs' = [reqs EXCEPT ![i] = [pc |-> "idle"]]
            /\ UNCHANGED post_rates
       ELSE /\ post_rates' = Upsert(reqs[i].user_id, reqs[i].post_id, reqs[i].rate_type)
            /\ reqs' = [reqs EXCEPT ![i].pc = "refresh"]
            /\ UNCHANGED resp

rate_refresh(i) ==
    /\ reqs[i].pc = "refresh"
    /\ UNCHANGED <<now, users, friends, posts, post_rates, issued>>
    /\ reqs' = [reqs EXCEPT ![i] = [pc |-> "idle"]]
    /\ \E tl \in Enumerations(posts[reqs[i].post_id].tags) :
           resp' = Reply(reqs[i].op, reqs[i].token, [post_id |-> reqs[i].post_id],
                         200, "", Post(posts[reqs[i].post_id], tl))

----------------------------------------------------------------------------
(* The friend graph among three registered users *)

Registered(login, isPublic) ==
    LET body == RegisterBody(login, StrongA, "RU", isPublic)
    IN  receive_before_insert(
            [login |-> body.login, password |-> get_password_hash(body.password),
             email |-> body.email, countryCode |-> body.countryCode,
             isPublic |-> body.isPublic, phone |-> body.phone,
             image |-> body.image, updated_at |-> Absent], 0)

TokenFor(user_id) ==
    create_access_token([user_id |-> user_id, login |-> None], TicksPerSec)

SocialLogins == {"alice", "bob", "carol", "dave"}

ActorTokens == { TokenFor(1), TokenFor(2), GarbageToken }

VisibilityBodies == { [isPublic |-> TRUE], [isPublic |-> FALSE] }

SocialInit ==
    /\ now = TicksPerSec
    /\ users = <<Registered("alice", FALSE), Registered("bob", FALSE),
                 Registered("carol", FALSE)>>
    /\ friends = {}
    /\ posts = <<>>
    /\ post_rates = {}
    /\ issued = {}
    /\ reqs = NoRequests
    /\ resp = [n |-> 0, at |-> 0, op |-> "none", token |-> NoToken, arg |-> NoArg, status |-> 0,
               reason |-> "", body |-> NoBody]

FriendsNext ==
    \/ Tick
    \/ \E token \in ActorTokens, login \in SocialLogins : friends_add(token, login)
    \/ \E token \in ActorTokens, login \in SocialLogins : friends_remove(token, login)
    \/ \E token \in ActorTokens, login \in SocialLogins : get_profile(token, login)
    \/ \E token \in ActorTokens, body \in VisibilityBodies : patch_my_profile(token, body)

SpecFriends == SocialInit /\ [][FriendsNext]_vars

----------------------------------------------------------------------------
(* Posts of two acting users and who may read them *)

PostsNext ==
    \/ Tick
    \/ \E token \in ActorTokens, login \in {"alice", "bob"} : friends_add(token, login)
    \/ \E token \in ActorTokens, login \in {"alice", "bob"} : friends_remove(token, login)
    \/ \E token \in ActorTokens, body \in VisibilityBodies : patch_my_profile(token, body)
    \/ \E token \in ActorTokens : submit_post(token, "c", <<"a", "a">>)
    \/ \E token \in ActorTokens, login \in {"alice", "bob", "dave"} :
           get_feed_by_others(token, login, 5, 0)
    \/ \E token \in ActorTokens, post_id \in 1..(MaxPosts + 1) :
           get_post_by_id(token, post_id)

SpecPosts == SocialInit /\ [][PostsNext]_vars

----------------------------------------------------------------------------
(* Every protected operation, one acting user *)

StaleToken == create_access_token([user_id |-> 1, login |-> None], 0)

OrphanToken == create_access_token([user_id |-> 4, login |-> None], TicksPerSec)

SocialTokens == { TokenFor(1), GarbageToken, StaleToken, OrphanToken }

PeerLogins == {"bob", "dave"}

Pages == { [limit |-> 5, offset |-> 0] }

PatchBodies == VisibilityBodies \cup { [countryCode |-> "ZZ", isPublic |-> TRUE] }

SocialNext ==
    \/ Tick
    \/ \E token \in SocialTokens, page \in Pages :
           friends_list(token, page.limit, page.offset)
    \/ \E token \in SocialTokens, login \in PeerLogins : friends_add(token, login)
    \/ \E token \in SocialTokens, login \in PeerLogins : friends_remove(token, login)
    \/ \E token \in SocialTokens : get_my_profile(token)
    \/ \E token \in SocialTokens, body \in PatchBodies : patch_my_profile(token, body)
    \/ \E token \in SocialTokens, new \in {StrongB, Weak} :
           update_password(token, StrongA, new)
    \/ \E token \in SocialTokens, page \in Pages :
           get_my_feed(token, page.limit, page.offset)
    \/ \E token \in SocialTokens, login \in PeerLogins, page \in Pages :
           get_feed_by_others(token, login, page.limit, page.offset)
    \/ \E token \in SocialTokens : submit_post(token, "c", <<"a", "a">>)
    \/ \E token \in SocialTokens, post_id \in 1..(MaxPosts + 1) :
           get_post_by_id(token, post_id)
    \/ \E token \in SocialTokens, post_id \in 1..(MaxPosts + 1) :
           dislike_post(token, post_id)
    \/ \E token \in SocialTokens, post_id \in 1..(MaxPosts + 1) :
           like_post(token, post_id)
    \/ \E token \in SocialTokens, login \in PeerLogins : get_profile(token, login)

SpecSocial == SocialInit /\ [][SocialNext]_vars

----------------------------------------------------------------------------
(* Reactions of two acting users on posts whose owners change visibility *)

ReactNext ==
    \/ \E token \in ActorTokens, body \in VisibilityBodies : patch_my_profile(token, body)
    \/ \E token \in ActorTokens : submit_post(token, "c", <<"a">>)
    \/ \E token \in ActorTokens, post_id \in 1..(MaxPosts + 1) :
           get_post_by_id(token, post_id)
    \/ \E token \in ActorTokens, post_id \in 1..(MaxPosts + 1) :
           dislike_post(token, post_id)
    \/ \E token \in ActorTokens, post_id \in 1..(MaxPosts + 1) :
           like_post(token, post_id)

SpecReact == SocialInit /\ [][ReactNext]_vars

----------------------------------------------------------------------------
(* Two reaction requests of one user in flight at once *)

RaceTokens == { TokenFor(1), GarbageToken }

RaceNext ==
    \/ \E token \in RaceTokens : submit_post(token, "c", <<"a">>)
    \/ \E i \in ReqIds, token \in RaceTokens, post_id \in 1..(MaxPosts + 1) :
           rate_read(i, "dislike_post", token, post_id, -1)
    \/ \E i \in ReqIds, token \in RaceTokens, post_id \in 1..(MaxPosts + 1) :
           rate_read(i, "like_post", token, post_id, 1)
    \/ \E i \in ReqIds : rate_execute(i)
    \/ \E i \in ReqIds : rate_commit(i)
    \/ \E i \in ReqIds : rate_refresh(i)

SpecRace == SocialInit /\ [][RaceNext]_vars

----------------------------------------------------------------------------
(* Profiles: registration and PATCH with phones and country codes *)

ProfileRegisterBodies ==
    { WithContact(RegisterBody("dave", StrongA, "RU", TRUE), <<"dave", "@">>, "+1"),
      WithContact(RegisterBody("dave", StrongA, "ZZ", TRUE), <<"dave", "@">>, "+2"),
      WithContact(RegisterBody("alice", StrongA, "ZZ", TRUE), <<"alice", "@">>, None),
      RegisterBody("erin", Weak, "ZZ", FALSE) }

ProfilePatchBodies ==
    { [phone |-> "+1"],
      [phone |-> "+2"],
      [phone |-> "+1", countryCode |-> "RU"],
      [phone |-> "+1", countryCode |-> "ZZ"],
      [countryCode |-> "ZZ", isPublic |-> TRUE, image |-> "i"],
      [countryCode |-> "RU", isPublic |-> TRUE] }

ProfileNext ==
    \/ \E body \in ProfileRegisterBodies : auth_register(body)
    \/ \E token \in ActorTokens, body \in ProfilePatchBodies : patch_my_profile(token, body)
    \/ \E token \in ActorTokens : get_my_profile(token)

SpecProfile == SocialInit /\ [][ProfileNext]_vars

----------------------------------------------------------------------------
(* Passwords: registration, sign-in and password change *)

NoLower == <<"A", "B", "1">>

NoUpper == <<"a", "b", "2">>

NoDigit == <<"a", "A", "b">>

Long(last) ==
    [i \in 1..(BcryptMaxBytes + 1) |->
        IF i = 1 THEN "a" ELSE IF i = 2 THEN "A" ELSE IF i = 3 THEN "1"
        ELSE IF i = BcryptMaxBytes + 1 THEN last ELSE "b"]

LongA == Long("a")

LongB == Long("b")

CredPasswords == {StrongA, StrongB, NoLower, NoUpper, NoDigit, LongA, LongB}

CredBodies ==
    { RegisterBody("dave", LongA, "RU", TRUE),
      RegisterBody("dave", NoLower, "RU", TRUE),
      RegisterBody("erin", NoUpper, "RU", TRUE),
      RegisterBody("erin", NoDigit, "RU", TRUE) }

CredLogins == {"alice", "dave"}

CredTokens ==
    { create_access_token([user_id |-> 1, login |-> None], s * TicksPerSec) :
        s \in { x \in Seconds : x = IntTimestamp(now) } }

CredNewPasswords == {StrongB, NoLower, NoUpper, NoDigit, LongA}

CredNext ==
    \/ Jump
    \/ \E body \in CredBodies : auth_register(body)
    \/ \E l \in CredLogins, p \in {StrongA, StrongB, LongB} : auth_sign_in(l, p)
    \/ \E token \in CredTokens, old \in {StrongA, StrongB}, new \in CredNewPasswords :
           update_password(token, old, new)

SpecCred == SocialInit /\ [][CredNext]_vars

----------------------------------------------------------------------------
(* Feeds of an owner who already has several posts *)

MaxFeed == 3

StoredPost(id, owner_id) ==
    [id |-> id, content |-> "c", owner_id |-> owner_id,
     createdAt |-> TicksPerSec + id - 1, tags |-> {"a"}]

FeedInit ==
    /\ now = TicksPerSec + MaxFeed - 1
    /\ users = <<Registered("alice", FALSE), Registered("bob", FALSE),
                 Registered("carol", FALSE)>>
    /\ friends = {}
    /\ posts = [i \in 1..MaxFeed |-> StoredPost(i, 1)]
    /\ post_rates = {}
    /\ issued = {}
    /\ reqs = NoRequests
    /\ resp = [n |-> 0, at |-> 0, op |-> "none", token |-> NoToken, arg |-> NoArg, status |-> 0,
               reason |-> "", body |-> NoBody]

FeedPages ==
    { [limit |-> l, offset |-> o] : l \in {0, 2}, o \in {0, MaxFeed - 1, MaxFeed + 1} }

FeedNext ==
    \/ \E token \in ActorTokens, body \in VisibilityBodies : patch_my_profile(token, body)
    \/ \E token \in ActorTokens, page \in FeedPages :
           get_my_feed(token, page.limit, page.offset)
    \/ \E token \in ActorTokens, page \in FeedPages :
           get_feed_by_others(token, "alice", page.limit, page.offset)

SpecFeed == FeedInit /\ [][FeedNext]_vars

----------------------------------------------------------------------------
(* Posts submitted with repeated tags *)

TagLists == { <<"a", "a", "b">>, <<"b", "a">>, <<"b", "b">>, <<>> }

TagsNext ==
    \/ \E token \in ActorTokens, body \in VisibilityBodies : patch_my_profile(token, body)
    \/ \E token \in ActorTokens, tags \in TagLists : submit_post(token, "c", tags)
    \/ \E token \in ActorTokens, post_id \in 1..(MaxPosts + 1) :
           get_post_by_id(token, post_id)

SpecTags == SocialInit /\ [][TagsNext]_vars

----------------------------------------------------------------------------
(* Two friends/add requests in flight at once *)

FriendRaceNext ==
    \/ Tick
    \/ \E i \in ReqIds, token \in ActorTokens, login \in {"alice", "bob", "dave"} :
           friends_add_read(i, token, login)
    \/ \E i \in ReqIds : friends_add_flush(i)
    \/ \E i \in ReqIds : friends_add_commit(i)
    \/ \E i \in ReqIds : friends_add_answer(i)

SpecFriendRace == SocialInit /\ [][FriendRaceNext]_vars

----------------------------------------------------------------------------
(* Sessions of two PATCH requests; a request once opened is served to its  *)
(* end by its worker thread.                                               *)

SessionBodies ==
    { [phone |-> "+1"],
      [phone |-> "+1", countryCode |-> "RU"],
      [countryCode |-> "ZZ", isPublic |-> TRUE] }

Serve(i) ==
    \/ patch_guard(i)
    \/ patch_setattr(i)
    \/ patch_country(i)
    \/ patch_commit(i)
    \/ patch_close(i)

SessionNext ==
    \/ \E i \in ReqIds, token \in ActorTokens, body \in SessionBodies :
           patch_open(i, token, body)
    \/ \E i \in ReqIds : Serve(i)

(* A statement waiting for a row or index entry is queued by the database   *)
(* and runs when the holder's transaction ends, before later arrivals:      *)
(* a request that can take a step again and again does take it.             *)
SpecSession ==
    SocialInit /\ [][SessionNext]_vars /\ \A i \in ReqIds : SF_vars(Serve(i))

----------------------------------------------------------------------------
(* Two users who add and remove each other and read each other's profile   *)
(* and posts                                                               *)

VisibilityNext ==
    \/ \E token \in ActorTokens, login \in {"alice", "bob"} : friends_add(token, login)
    \/ \E token \in ActorTokens, login \in {"alice", "bob"} : friends_remove(token, login)
    \/ \E token \in ActorTokens, body \in VisibilityBodies : patch_my_profile(token, body)
    \/ \E token \in ActorTokens : submit_post(token, "c", <<"a">>)
    \/ \E token \in ActorTokens, login \in {"alice", "bob"} : get_profile(token, login)
    \/ \E token \in ActorTokens, login \in {"alice", "bob"} :
           get_feed_by_others(token, login, 5, 0)
    \/ \E token \in ActorTokens, post_id \in 1..MaxPosts : get_post_by_id(token, post_id)

SpecVisibility == SocialInit /\ [][VisibilityNext]_vars

----------------------------------------------------------------------------
(* Two users who react to a post and read it back through every endpoint   *)
(* that returns a post                                                     *)

CountsNext ==
    \/ \E token \in ActorTokens : patch_my_profile(token, [isPublic |-> TRUE])
    \/ \E token \in ActorTokens : submit_post(token, "c", <<"a">>)
    \/ \E token \in ActorTokens : get_my_feed(token, 5, 0)
    \/ \E token \in ActorTokens, login \in {"alice", "bob"} :
           get_feed_by_others(token, login, 5, 0)
    \/ \E token \in ActorTokens, post_id \in 1..MaxPosts : get_post_by_id(token, post_id)
    \/ \E token \in ActorTokens, post_id \in 1..MaxPosts : dislike_post(token, post_id)
    \/ \E token \in ActorTokens, post_id \in 1..MaxPosts : like_post(token, post_id)

SpecCounts == SocialInit /\ [][CountsNext]_vars

----------------------------------------------------------------------------
(* Everything that writes, by two users created before the current second; *)
(* one PATCH body carries a key the request model does not declare         *)

StampBodies == { [isPublic |-> TRUE], [phone |-> "+1", updated_at |-> Timestamp(MaxNow)] }

StampTokens == { TokenFor(1), TokenFor(2) }

StampNext ==
    \/ auth_register(RegisterBody("dave", StrongA, "RU", TRUE))
    \/ \E token \in StampTokens : update_password(token, StrongA, StrongB)
    \/ \E token \in StampTokens, body \in StampBodies : patch_my_profile(token, body)
    \/ friends_add(TokenFor(1), "bob")
    \/ friends_remove(TokenFor(1), "bob")
    \/ submit_post(TokenFor(1), "c", <<"a">>)
    \/ dislike_post(TokenFor(1), 1)
    \/ like_post(TokenFor(1), 1)

SpecStamp == SocialInit /\ [][StampNext]_vars

----------------------------------------------------------------------------
(* Properties of the Authorization Guard *)

ProtectedOps ==
    {"friends_list", "friends_add", "friends_remove", "get_my_profile",
     "patch_my_profile", "update_password", "get_my_feed", "get_feed_by_others",
     "submit_post", "get_post_by_id", "like_post", "dislike_post", "get_profile"}

IsRequest == resp'.n # resp.n

ProtectedRequest == IsRequest /\ resp'.op \in ProtectedOps

NamesUser(token) == token.sig /\ token.user_id \in UserIds

StaleFor(token) ==
    /\ NamesUser(token)
    /\ token.issued_at # Absent
    /\ users[token.user_id].updated_at >= token.issued_at * TicksPerSec

(* C1: a protected request whose signed token names user U with            *)
(* U.updated_at >= token.issued_at is answered 401; a successful           *)
(* updatePassword moves U.updated_at to the present instant, which is at   *)
(* or after the issue second of every token made so far, and updated_at    *)
(* never moves back, so those tokens stay rejected although unexpired.     *)
C1_StaleTokenRejected ==
    [][/\ (ProtectedRequest /\ StaleFor(resp'.token)) => resp'.status = 401
       /\ \A i \in UserIds : users'[i].updated_at >= users[i].updated_at
       /\ (IsRequest /\ resp'.op = "update_password" /\ resp'.status = 200) =>
            LET u == resp'.token.user_id
            IN  /\ users'[u].updated_at = Timestamp(now)
                /\ \A tok \in PresentedTokens :
                       (tok.sig /\ tok.user_id = u) =>
                           users'[u].updated_at >= tok.issued_at * TicksPerSec]_vars

C1_Witness ==
    /\ resp.op = "get_my_profile"
    /\ resp.status = 401
    /\ resp.token.sig
    /\ resp.token.user_id \in UserIds
    /\ users[resp.token.user_id].password = get_password_hash(StrongB)
    /\ users[resp.token.user_id].updated_at >= resp.token.issued_at * TicksPerSec
    /\ users[resp.token.user_id].updated_at > 0
    /\ now < resp.token.expire_at * TicksPerSec

(* C2: a token returned by sign-in for U, presented on a protected request *)
(* before its expire_at while U.updated_at lies before the issue second,   *)
(* is accepted, and GET /me/profile answers with U's profile.              *)
C2_SignInTokenAccepted ==
    [][(/\ ProtectedRequest
        /\ resp'.token \in issued
        /\ UserByLogin(resp'.token.login) # 0
        /\ users[UserByLogin(resp'.token.login)].updated_at
               < resp'.token.issued_at * TicksPerSec
        /\ now < resp'.token.expire_at * TicksPerSec)
       => /\ resp'.status \notin {401, 500}
          /\ resp'.op = "get_my_profile" =>
                 (resp'.status = 200 /\ resp'.body.login = resp'.token.login)]_vars

GuardFailureCase(token) ==
    \/ ~token.sig
    \/ token.user_id = Absent
    \/ token.user_id \notin UserIds
    \/ StaleFor(token)
    \/ (token.expire_at # Absent /\ token.expire_at < IntTimestamp(now))

(* C3: every failure of the guard (bad signature, no identity claim,       *)
(* identity naming no user, stale, expired) is answered 401 with the one   *)
(* CredentialsException reason.                                            *)
C3_UniformUnauthenticated ==
    [][(ProtectedRequest /\ GuardFailureCase(resp'.token))
       => (resp'.status = 401 /\ resp'.reason = CredentialsDetail)]_vars

(* C4: a protected request whose signed token names an existing user and   *)
(* that arrives at a time now >= token.expire_at is answered 401, the      *)
(* instant now = expire_at included.                                       *)
C4_ExpiredRejected ==
    [][(/\ ProtectedRequest
        /\ NamesUser(resp'.token)
        /\ resp'.token.expire_at # Absent
        /\ now >= resp'.token.expire_at * TicksPerSec)
       => resp'.status = 401]_vars

----------------------------------------------------------------------------
(* Properties of the protected handlers *)

Authenticated(token) ==
    /\ NamesUser(token)
    /\ users[token.user_id].updated_at < token.issued_at * TicksPerSec
    /\ now < token.expire_at * TicksPerSec

Rejected(token) ==
    \/ ~token.sig
    \/ token.user_id = Absent
    \/ StaleFor(token)
    \/ (NamesUser(token) /\ token.expire_at < IntTimestamp(now))

StoreUnchanged ==
    /\ users' = users
    /\ friends' = friends
    /\ posts' = posts
    /\ post_rates' = post_rates

(* C5: on every protected operation a request whose token the guard        *)
(* rejects is answered 401 and leaves users, friend edges, posts, tags and *)
(* reactions as they were; no request changes the store unless its token   *)
(* authenticates a user.                                                   *)
C5_GuardBeforeHandler ==
    [][ProtectedRequest =>
          /\ Rejected(resp'.token) =>
                 (resp'.status = 401 /\ resp'.body = NoBody /\ StoreUnchanged)
          /\ ~Authenticated(resp'.token) =>
                 (resp'.status \in {401, 500} /\ StoreUnchanged)]_vars

C5_Witness ==
    /\ resp.op = "friends_remove"
    /\ resp.status = 401
    /\ resp.token = StaleToken
    /\ \E e \in friends : e.whoadded_id = 1 /\ e.added_id = 2
    /\ Len(posts) > 0

MayView(actor, target) ==
    /\ target # 0
    /\ \/ users[target].isPublic
       \/ actor = target
       \/ \E e \in friends : e.whoadded_id = target /\ e.added_id = actor

(* C6: GET /profiles/{login} by an authenticated actor A returns the       *)
(* target's profile iff the target T exists and T is public, or A is T, or *)
(* the edge T->A exists; otherwise 403 "access denied" and no profile.     *)
C6_ProfileVisibility ==
    [][(IsRequest /\ resp'.op = "get_profile" /\ Authenticated(resp'.token)) =>
          LET A == resp'.token.user_id
              T == UserByLogin(resp'.arg.login)
          IN  IF MayView(A, T)
              THEN resp'.status = 200 /\ resp'.body = UserProfile(users[T])
              ELSE /\ resp'.status = 403
                   /\ resp'.reason = "access denied"
                   /\ resp'.body = NoBody]_vars

C6_Witness ==
    /\ resp.op = "get_profile"
    /\ resp.status = 200
    /\ resp.at = now
    /\ LET A == resp.token.user_id
           T == UserByLogin(resp.arg.login)
       IN  /\ T # 0
           /\ T # A
           /\ ~users[T].isPublic
           /\ \E e \in friends : e.whoadded_id = T /\ e.added_id = A
           /\ ~\E e \in friends : e.whoadded_id = A /\ e.added_id = T

OwnerOf(r) ==
    IF r.op = "get_feed_by_others" THEN UserByLogin(r.arg.login)
    ELSE IF r.arg.post_id \in PostIds THEN posts[r.arg.post_id].owner_id
    ELSE 0

(* C7: GET /posts/feed/{login} and GET /posts/{post_id} by an              *)
(* authenticated actor who may not view the owner answer 404 with the same *)
(* reason as for a nonexistent user or post and carry no post; a 200       *)
(* answer only carries posts of an owner the actor may view.               *)
C7_PostsFollowOwnerVisibility ==
    [][(/\ IsRequest
        /\ resp'.op \in {"get_feed_by_others", "get_post_by_id"}
        /\ Authenticated(resp'.token)) =>
          LET A == resp'.token.user_id
              T == OwnerOf(resp')
          IN  IF MayView(A, T)
              THEN /\ resp'.status = 200
                   /\ resp'.op = "get_post_by_id" => resp'.body.author = users[T].login
                   /\ resp'.op = "get_feed_by_others" =>
                          \A i \in 1..Len(resp'.body.items) :
                              resp'.body.items[i].author = users[T].login
              ELSE /\ resp'.status = 404
                   /\ resp'.body = NoBody
                   /\ resp'.reason = IF resp'.op = "get_post_by_id"
                                     THEN "post not found" ELSE "posts not found"]_vars

C7_Witness ==
    /\ resp.op = "get_post_by_id"
    /\ resp.status = 404
    /\ resp.at = now
    /\ resp.arg.post_id \in PostIds
    /\ LET A == resp.token.user_id
           T == posts[resp.arg.post_id].owner_id
       IN  /\ T # A
           /\ ~users[T].isPublic
           /\ ~\E e \in friends : e.whoadded_id = T /\ e.added_id = A
           /\ \E e \in friends : e.whoadded_id = A /\ e.added_id = T

EdgesBetween(F, a, b) == { e \in F : e.whoadded_id = a /\ e.added_id = b }

(* C8: POST /friends/add by authenticated A for the login of an existing   *)
(* user B # A answers "ok" and leaves exactly one edge A->B; when the edge *)
(* already exists the friends table, added_at included, is unchanged.      *)
C8_AddFriendIdempotent ==
    [][(/\ IsRequest
        /\ resp'.op = "friends_add"
        /\ Authenticated(resp'.token)
        /\ UserByLogin(resp'.arg.login) \notin {0, resp'.token.user_id}) =>
          LET A == resp'.token.user_id
              B == UserByLogin(resp'.arg.login)
          IN  /\ resp'.status = 200
              /\ resp'.body = [status |-> "ok"]
              /\ Cardinality(EdgesBetween(friends', A, B)) = 1
              /\ EdgesBetween(friends, A, B) # {} => friends' = friends]_vars

C8_Witness ==
    /\ resp.op = "friends_add"
    /\ resp.status = 200
    /\ resp.at = now
    /\ LET A == resp.token.user_id
           B == UserByLogin(resp.arg.login)
       IN  /\ B \notin {0, A}
           /\ \E e \in EdgesBetween(friends, A, B) : e.added_at < resp.at

(* C9: POST /friends/remove by an authenticated actor always answers "ok": *)
(* an unknown login leaves the friends table unchanged, a login of user B  *)
(* removes the edge actor->B if present and nothing else.                  *)
C9_RemoveFriendFrame ==
    [][(IsRequest /\ resp'.op = "friends_remove" /\ Authenticated(resp'.token)) =>
          LET A == resp'.token.user_id
              B == UserByLogin(resp'.arg.login)
          IN  /\ resp'.status = 200
              /\ resp'.body = [status |-> "ok"]
              /\ B = 0 => friends' = friends
              /\ B # 0 => friends' = friends \ EdgesBetween(friends, A, B)
              /\ users' = users]_vars

C9_Witness ==
    /\ resp.op = "friends_remove"
    /\ resp.status = 200
    /\ resp.at = now
    /\ LET A == resp.token.user_id
           B == UserByLogin(resp.arg.login)
       IN  /\ B \notin {0, A}
           /\ EdgesBetween(friends, A, B) = {}
           /\ \E e \in EdgesBetween(friends, B, A) : e.added_at < resp.at
           /\ \E e \in friends : e.whoadded_id = A /\ e.added_id \notin {A, B}

(* C10: POST /friends/add by an authenticated actor with the actor's own   *)
(* login answers "ok" and creates no edge actor->actor; with a login of no *)
(* user it answers 404 and leaves the friends table unchanged.             *)
C10_AddFriendSelfAndUnknown ==
    [][(IsRequest /\ resp'.op = "friends_add" /\ Authenticated(resp'.token)) =>
          LET A == resp'.token.user_id
              B == UserByLogin(resp'.arg.login)
          IN  /\ B = A => /\ resp'.status = 200
                          /\ resp'.body = [status |-> "ok"]
                          /\ friends' = friends
                          /\ EdgesBetween(friends', A, A) = {}
              /\ B = 0 => /\ resp'.status = 404
                          /\ resp'.body = NoBody
                          /\ friends' = friends]_vars

C10_Witness ==
    /\ resp.op = "friends_add"
    /\ resp.status = 200
    /\ resp.at = now
    /\ resp.token.user_id \in UserIds
    /\ resp.arg.login = users[resp.token.user_id].login
    /\ friends # {}
    /\ \A e \in friends : e.whoadded_id # e.added_id

----------------------------------------------------------------------------
(* Properties of the Reaction Manager *)

RateOps == {"like_post", "dislike_post"}

RateOf(op) == IF op = "like_post" THEN 1 ELSE -1

RatesOfOthers(R, user_id, post_id) ==
    { r \in R : ~(r.user_id = user_id /\ r.post_id = post_id) }

NoDuplicateRates ==
    \A r1, r2 \in post_rates :
        (r1.user_id = r2.user_id /\ r1.post_id = r2.post_id) => r1 = r2

RateSucceeded == IsRequest /\ resp'.op \in RateOps /\ resp'.status = 200

(* C11: storage never holds two reaction rows for one (user, post) pair;   *)
(* a successful like_post / dislike_post by U on P leaves exactly the row  *)
(* (U, P) with the rate_type of that request, every other row as it was,   *)
(* and answers with the counts of the rows now stored for P; nothing else  *)
(* changes a reaction row. So like then dislike leaves one dislike row and *)
(* U is no longer counted in likesCount.                                   *)
C11_OneReactionLatestWins ==
    [][/\ NoDuplicateRates'
       /\ RateSucceeded =>
              LET U == resp'.token.user_id
                  P == resp'.arg.post_id
              IN  /\ post_rates' = RatesOfOthers(post_rates, U, P)
                                      \cup { [user_id |-> U, post_id |-> P,
                                              rate_type |-> RateOf(resp'.op)] }
                  /\ resp'.body.likesCount =
                         Cardinality({ r \in post_rates' :
                                         r.post_id = P /\ r.rate_type = 1 })
                  /\ resp'.body.dislikesCount =
                         Cardinality({ r \in post_rates' :
                                         r.post_id = P /\ r.rate_type = -1 })
       /\ ~RateSucceeded => post_rates' = post_rates]_vars

C11_Witness ==
    /\ resp.op = "dislike_post"
    /\ resp.status = 200
    /\ resp.body.likesCount = 1
    /\ resp.body.dislikesCount = 1
    /\ [user_id |-> resp.token.user_id, post_id |-> resp.arg.post_id, rate_type |-> -1]
           \in post_rates
    /\ Cardinality(post_rates) = 2

(* C12: while two like/dislike requests of one user on one post are in     *)
(* flight, in any interleaving of their read, upsert and commit steps, no  *)
(* request is answered with a storage error (500), storage never holds two *)
(* rows for one (user, post) pair, and a reaction row only changes at the  *)
(* commit of a request, to the rate_type that request submitted.           *)
C12_ConcurrentReactions ==
    [][/\ NoDuplicateRates'
       /\ (IsRequest /\ resp'.op \in RateOps) => resp'.status \in {200, 401, 404}
       /\ post_rates' # post_rates =>
              \E i \in ReqIds :
                  /\ reqs[i].pc = "commit"
                  /\ post_rates' =
                         RatesOfOthers(post_rates, reqs[i].user_id, reqs[i].post_id)
                             \cup { [user_id |-> reqs[i].user_id,
                                     post_id |-> reqs[i].post_id,
                                     rate_type |-> RateOf(reqs[i].op)] }]_vars

C12_Witness ==
    /\ reqs[1].pc = "refresh"
    /\ reqs[2].pc = "execute"
    /\ reqs[1].user_id = reqs[2].user_id
    /\ reqs[1].post_id = reqs[2].post_id
    /\ reqs[1].op = "like_post"
    /\ reqs[2].op = "dislike_post"
    /\ reqs[1].wrote = "insert"
    /\ [user_id |-> reqs[1].user_id, post_id |-> reqs[1].post_id, rate_type |-> 1]
           \in post_rates

(* C13: like_post / dislike_post by an authenticated actor on a post id    *)
(* that does not exist, or on a post whose owner the actor may not view,   *)
(* answers 404 "post not found" with no post, the same for both causes,    *)
(* and leaves every reaction row as it was.                                *)
C13_ReactionNotFound ==
    [][(/\ IsRequest
        /\ resp'.op \in RateOps
        /\ Authenticated(resp'.token)
        /\ ~MayView(resp'.token.user_id, OwnerOf(resp'))) =>
          /\ resp'.status = 404
          /\ resp'.reason = "post not found"
          /\ resp'.body = NoBody
          /\ post_rates' = post_rates]_vars

C13_Witness ==
    /\ resp.op = "like_post"
    /\ resp.status = 404
    /\ resp.arg.post_id \in PostIds
    /\ LET A == resp.token.user_id
           T == posts[resp.arg.post_id].owner_id
       IN  /\ T # A
           /\ ~users[T].isPublic
           /\ [user_id |-> A, post_id |-> resp.arg.post_id, rate_type |-> -1]
                  \in post_rates

----------------------------------------------------------------------------
(* Properties of registration and the profile store *)

UsersUnique ==
    \A i, j \in UserIds :
        i # j => /\ users[i].login # users[j].login
                 /\ users[i].email # users[j].email
                 /\ users[i].phone = None \/ users[i].phone # users[j].phone

Stores(row, body) ==
    /\ row.login = body.login
    /\ row.email = body.email
    /\ row.phone = body.phone
    /\ row.countryCode = body.countryCode
    /\ row.isPublic = body.isPublic

RegisterAnswered == IsRequest /\ resp'.op = "auth_register"

(* C14: login, email and phone are unique across the stored users in every *)
(* state. A user row is only created by the commit of a registration whose *)
(* body collides with no stored user; a registration is answered 201 only  *)
(* by the request whose row was created, 409 only when a stored user       *)
(* collides with its body, in both cases without a 500; a 400 or 409       *)
(* answer creates no user. So of two colliding registrations, in any       *)
(* interleaving, one is created and the other answered 409.                *)
C14_UniqueRegistration ==
    [][/\ UsersUnique'
       /\ users' # users =>
              \E i \in ReqIds :
                  /\ reqs[i].pc = "commit"
                  /\ reqs'[i].pc = "created"
                  /\ users' = Append(users, reqs[i].row)
                  /\ Stores(reqs[i].row, reqs[i].body)
                  /\ \A k \in UserIds : ~Collides(users[k], reqs[i].body)
       /\ \A i \in ReqIds :
              (reqs'[i].pc = "created" /\ reqs[i].pc # "created") => users' # users
       /\ RegisterAnswered =>
              /\ resp'.status \in {201, 400, 409}
              /\ users' = users
              /\ resp'.status = 201 =>
                     \E i \in ReqIds :
                         /\ reqs[i].pc = "created"
                         /\ reqs'[i].pc = "idle"
                         /\ reqs[i].body = resp'.arg
                         /\ \E k \in UserIds : users[k] = reqs[i].row
              /\ resp'.status = 409 =>
                     \E k \in UserIds : Collides(users[k], resp'.arg)
              /\ (/\ PasswordPolicy(resp'.arg.password)
                  /\ resp'.arg.login # "my"
                  /\ resp'.arg.countryCode \in Countries) => resp'.status \in {201, 409}]_vars

C14_Witness ==
    /\ resp.op = "auth_register"
    /\ resp.status = 409
    /\ \E j \in ReqIds :
           /\ reqs[j].pc = "created"
           /\ reqs[j].body.login # resp.arg.login
           /\ reqs[j].body.email # resp.arg.email
           /\ resp.arg.phone # None
           /\ reqs[j].body.phone = resp.arg.phone
           /\ users[Len(users)] = reqs[j].row

PatchAnswered ==
    IsRequest /\ resp'.op = "patch_my_profile" /\ Authenticated(resp'.token)

TakenByAnother(actor, body) ==
    /\ "phone" \in DOMAIN body
    /\ \E k \in UserIds \ {actor} : users[k].phone = body.phone

(* C15: PATCH /me/profile by an authenticated user whose body carries a    *)
(* phone already stored for another user answers 409 and leaves every      *)
(* stored profile unchanged, whatever other fields the body carries,       *)
(* countryCode included; it is never answered 500.                         *)
C15_PatchConflict ==
    [][(PatchAnswered /\ TakenByAnother(resp'.token.user_id, resp'.arg)) =>
          /\ resp'.status = 409
          /\ resp'.reason = "conflict"
          /\ users' = users]_vars

CountriesRespected == \A k \in UserIds : users[k].countryCode \in Countries

UnknownCountry(body) ==
    "countryCode" \in DOMAIN body /\ body.countryCode \notin Countries

(* C16: every stored user's countryCode names an existing Country; POST    *)
(* /auth/register and PATCH /me/profile (by an authenticated user) with a  *)
(* countryCode that names no Country answer 400, create no user and leave  *)
(* every field of every stored profile unchanged.                          *)
C16_CountryValidated ==
    [][/\ CountriesRespected'
       /\ ((RegisterAnswered \/ PatchAnswered) /\ UnknownCountry(resp'.arg)) =>
              /\ resp'.status = 400
              /\ users' = users]_vars

----------------------------------------------------------------------------
(* Properties of the Credential Verifier *)

UpdateAnswered ==
    IsRequest /\ resp'.op = "update_password" /\ Authenticated(resp'.token)

UpdateSucceeded == IsRequest /\ resp'.op = "update_password" /\ resp'.status = 200

MeetsPolicy(p) ==
    \A class \in {LowerChars, UpperChars, DigitChars} : \E i \in 1..Len(p) : p[i] \in class

StoredPasswordsConform ==
    \A k \in UserIds :
        \E p \in CredPasswords :
            users[k].password = get_password_hash(p) /\ MeetsPolicy(p)

PasswordsUnchanged ==
    /\ Len(users') = Len(users)
    /\ \A k \in UserIds : users'[k].password = users[k].password

OnlyPassword(stored, password) ==
    \A p \in CredPasswords : verify_password(p, stored) <=> p = password

(* C18: POST /auth/sign-in for login L answers 200 with a token exactly    *)
(* when the supplied plaintext is L's current password, and 401 otherwise: *)
(* sign-in succeeds exactly for a plaintext that verifies against the      *)
(* stored password of L; after a 201 registration the only plaintext that  *)
(* verifies is the registration password, after a 200 password change the  *)
(* only one is newPassword (so the old password no longer signs in), and   *)
(* nothing else changes a stored password; no stored password equals a     *)
(* plaintext.                                                              *)
C18_SignInIffCurrentPassword ==
    [][/\ \A p \in CredPasswords, k \in UserIds : Len(users[k].password) # Len(p)
       /\ (IsRequest /\ resp'.op = "auth_sign_in") =>
              LET k == UserByLogin(resp'.arg.login)
                  current == k # 0 /\ verify_password(resp'.arg.password, users[k].password)
              IN  /\ current => (resp'.status = 200 /\ resp'.body.sig)
                  /\ ~current => (resp'.status = 401 /\ resp'.body = NoBody)
                  /\ users' = users
       /\ (RegisterAnswered /\ resp'.status = 201) =>
              /\ users' = Append(users, users'[Len(users')])
              /\ users'[Len(users')].login = resp'.arg.login
              /\ OnlyPassword(users'[Len(users')].password, resp'.arg.password)
       /\ UpdateSucceeded =>
              LET U == resp'.token.user_id
              IN  /\ verify_password(resp'.arg.oldPassword, users[U].password)
                  /\ OnlyPassword(users'[U].password, resp'.arg.newPassword)
                  /\ \A k \in UserIds \ {U} : users'[k] = users[k]
       /\ ~(\/ RegisterAnswered /\ resp'.status = 201
            \/ UpdateSucceeded) => PasswordsUnchanged]_vars

----------------------------------------------------------------------------
(* Properties of the Feed Assembler *)

CreatedOrder(owner) == SelectSeq(posts, LAMBDA post : post.owner_id = owner)

FeedOwner(r) == IF r.op = "get_my_feed" THEN r.token.user_id ELSE UserByLogin(r.arg.login)

ExpectedCount(n, limit, offset) ==
    LET rest == IF n - offset > 0 THEN n - offset ELSE 0
    IN  IF limit < rest THEN limit ELSE rest

(* C19: a 200 answer of GET /posts/feed/my or GET /posts/feed/{login} with *)
(* (offset, limit) carries exactly the posts at positions offset ..        *)
(* offset+limit-1 of the owner's posts in creation order, that is          *)
(* min(limit, max(0, n-offset)) posts, in creation order.                  *)
C19_FeedPagination ==
    [][(/\ IsRequest
        /\ resp'.op \in {"get_my_feed", "get_feed_by_others"}
        /\ resp'.status = 200) =>
          LET expected == Slice(CreatedOrder(FeedOwner(resp')),
                                resp'.arg.offset, resp'.arg.limit)
              items == resp'.body.items
          IN  /\ Len(items) = ExpectedCount(Len(CreatedOrder(FeedOwner(resp'))),
                                            resp'.arg.limit, resp'.arg.offset)
              /\ \A i \in 1..Len(items) : items[i].id = expected[i].id]_vars

Elements(seq) == { seq[i] : i \in 1..Len(seq) }

(* C20: POST /posts/new by an authenticated user answers 200, never a      *)
(* constraint error, and stores and returns a post whose tags are the      *)
(* submitted tags, each exactly once: the set of returned tags and the set *)
(* of stored tags equal the set of submitted tags and the returned list is *)
(* as long as the number of distinct submitted tags.                       *)
C20_TagsDeduplicated ==
    [][(IsRequest /\ resp'.op = "submit_post" /\ Authenticated(resp'.token)) =>
          LET submitted == Elements(resp'.arg.tags)
          IN  /\ resp'.status = 200
              /\ Elements(resp'.body.tags) = submitted
              /\ Len(resp'.body.tags) = Cardinality(submitted)
              /\ Len(posts') = Len(posts) + 1
              /\ posts'[Len(posts')].tags = submitted
              /\ posts'[Len(posts')].id = resp'.body.id]_vars

C20_Witness ==
    /\ resp.op = "submit_post"
    /\ resp.status = 200
    /\ resp.arg.tags = <<"a", "a", "b">>
    /\ Len(resp.body.tags) = 2
    /\ posts[Len(posts)].tags = {"a", "b"}

----------------------------------------------------------------------------
(* Properties of concurrent requests and of the session *)

EdgesUnique ==
    \A e1, e2 \in friends :
        (e1.whoadded_id = e2.whoadded_id /\ e1.added_id = e2.added_id) => e1 = e2

(* C21: with two POST /friends/add requests in flight, in any interleaving *)
(* of their reads, INSERT, COMMIT and answer, the friends table never      *)
(* holds two edges for one ordered pair; every request of an authenticated *)
(* user A for the login of an existing user B is answered "ok", never 500, *)
(* and when B # A exactly one edge A->B is stored at that answer; an edge  *)
(* is only added by the commit of a request that found none stored.        *)
C21_ConcurrentAddFriend ==
    [][/\ EdgesUnique'
       /\ (IsRequest /\ resp'.op = "friends_add" /\ Authenticated(resp'.token)
              /\ UserByLogin(resp'.arg.login) # 0) =>
              LET A == resp'.token.user_id
                  B == UserByLogin(resp'.arg.login)
              IN  /\ resp'.status = 200
                  /\ resp'.body = [status |-> "ok"]
                  /\ B # A => Cardinality(EdgesBetween(friends', A, B)) = 1
       /\ friends' # friends =>
              \E i \in ReqIds :
                  /\ reqs[i].pc = "commit"
                  /\ EdgesBetween(friends, reqs[i].user_id, reqs[i].added_id) = {}
                  /\ friends' = friends \cup
                         {Edge(reqs[i].user_id, reqs[i].added_id, reqs[i].added_at)}]_vars

C21_Witness ==
    /\ resp.op = "friends_add"
    /\ resp.status = 200
    /\ reqs[1].pc = "answer"
    /\ reqs[1].wrote = "insert"
    /\ reqs[2].pc = "idle"
    /\ resp.token.user_id = reqs[1].user_id
    /\ UserByLogin(resp.arg.login) = reqs[1].added_id
    /\ Cardinality(EdgesBetween(friends, reqs[1].user_id, reqs[1].added_id)) = 1

SessionHeld(i) == reqs[i].pc # "idle"

ReleaseKeepsStore ==
    \A i \in ReqIds :
        (SessionHeld(i) /\ ~SessionHeld(i)') =>
            /\ IsRequest
            /\ users' = users
            /\ resp'.status = reqs[i].outcome.status

OnlyCommitStores ==
    users' # users =>
        \E i \in ReqIds :
            /\ reqs[i].pc = "commit"
            /\ reqs'[i].outcome.status = 200
            /\ users' = [users EXCEPT ![reqs[i].user_id] =
                                     SetAttrs(users[reqs[i].user_id], reqs[i].body)]

(* C22: a request that has acquired its session from get_session          *)
(* eventually releases it, whether the handler returns a profile, returns  *)
(* an error response or raises (401 from the guard, 500 from a flush);     *)
(* the stored users only change at a COMMIT, to the fields that request    *)
(* set, and the release of a session changes nothing, so what a request    *)
(* answered with an error had written and not committed is never stored.   *)
C22_SessionReleased ==
    /\ \A i \in ReqIds : SessionHeld(i) ~> ~SessionHeld(i)
    /\ [][ReleaseKeepsStore /\ OnlyCommitStores]_vars

C22_Witness ==
    /\ resp.op = "patch_my_profile"
    /\ resp.status = 400
    /\ resp.reason = "no such country"
    /\ resp.arg.isPublic
    /\ ~users[resp.token.user_id].isPublic
    /\ \A i \in ReqIds : ~SessionHeld(i)

----------------------------------------------------------------------------
(* Friend visibility over time *)

Follows(F, a, b) == \E e \in F : e.whoadded_id = a /\ e.added_id = b

ViewOps == {"get_profile", "get_feed_by_others", "get_post_by_id"}

ViewTarget(r) ==
    IF r.op = "get_profile" THEN UserByLogin(r.arg.login) ELSE OwnerOf(r)

ViewFollowsEdge ==
    (IsRequest /\ resp'.op \in ViewOps /\ Authenticated(resp'.token)) =>
        LET A == resp'.token.user_id
            T == ViewTarget(resp')
        IN  (T # 0 /\ T # A /\ ~users[T].isPublic) =>
                (resp'.status = 200 <=> Follows(friends, T, A))

EdgeFollowsOwner ==
    (/\ IsRequest
     /\ resp'.op \in {"friends_add", "friends_remove"}
     /\ resp'.status = 200) =>
        LET X == resp'.token.user_id
            Y == UserByLogin(resp'.arg.login)
        IN  /\ \A a, b \in UserIds :
                   <<a, b>> # <<X, Y>> => (Follows(friends', a, b) <=> Follows(friends, a, b))
            /\ X # Y => (Follows(friends', X, Y) <=> resp'.op = "friends_add")

EdgesOnlyByFriendOps ==
    friends' # friends => (IsRequest /\ resp'.op \in {"friends_add", "friends_remove"})

(* C23: for a private user T and an authenticated actor A other than T,    *)
(* the profile, feed and single posts of T are returned to A exactly in    *)
(* the states where the edge T->A is stored; a successful add or remove by *)
(* X of Y changes the edge X->Y only (stored after add, absent after       *)
(* remove), so A adding T never gives A access to T, T adding A gives it   *)
(* and T removing A takes it away; nothing else changes the edges.         *)
C23_VisibilityTracksEdges ==
    [][ViewFollowsEdge /\ EdgeFollowsOwner /\ EdgesOnlyByFriendOps]_vars

C23_Witness ==
    /\ resp.op = "friends_remove"
    /\ resp.status = 200
    /\ LET T == resp.token.user_id
           A == UserByLogin(resp.arg.login)
       IN  /\ A # 0 /\ A # T
           /\ ~users[T].isPublic
           /\ Len(posts) > 0 /\ posts[1].owner_id = T
           /\ ~Follows(friends, T, A)
           /\ Follows(friends, A, T)

----------------------------------------------------------------------------
(* Reaction counts in post projections *)

PostOps ==
    {"get_my_feed", "get_feed_by_others", "submit_post", "get_post_by_id",
     "like_post", "dislike_post"}

Projections(r) ==
    IF r.op \in {"get_my_feed", "get_feed_by_others"}
    THEN { r.body.items[i] : i \in 1..Len(r.body.items) }
    ELSE { r.body }

RateRows(R, post_id, rate_type) ==
    { r \in R : r.post_id = post_id /\ r.rate_type = rate_type }

CountsMatchRows ==
    (IsRequest /\ resp'.op \in PostOps /\ resp'.status = 200) =>
        /\ \A p \in Projections(resp') :
               /\ p.likesCount = Cardinality(RateRows(post_rates', p.id, 1))
               /\ p.dislikesCount = Cardinality(RateRows(post_rates', p.id, -1))
        /\ resp'.op = "submit_post" =>
               resp'.body.likesCount = 0 /\ resp'.body.dislikesCount = 0
        /\ resp'.op \in RateOps =>
               [user_id |-> resp'.token.user_id, post_id |-> resp'.arg.post_id,
                rate_type |-> RateOf(resp'.op)]
                   \in RateRows(post_rates', resp'.body.id, RateOf(resp'.op))

(* C24: in every post returned by the two feeds, the post fetch, the post  *)
(* creation and like/dislike, likesCount is the number of stored reaction  *)
(* rows of that post with rate_type like and dislikesCount the number with *)
(* dislike; a new post carries 0 and 0; the post returned by like or       *)
(* dislike counts the row that request has just written.                   *)
C24_CountsMatchRows == [][CountsMatchRows]_vars

C24_Witness ==
    /\ resp.op = "dislike_post"
    /\ resp.status = 200
    /\ resp.body.likesCount = 1
    /\ resp.body.dislikesCount = 1
    /\ Cardinality(RateRows(post_rates, resp.body.id, 1)) = 1
    /\ Cardinality(RateRows(post_rates, resp.body.id, -1)) = 1

----------------------------------------------------------------------------
(* Who writes updated_at *)

StampKeepingOps ==
    {"patch_my_profile", "friends_add", "friends_remove", "submit_post",
     "like_post", "dislike_post"}

StampChanged(u) == users'[u].updated_at # users[u].updated_at

StampOnlyByPassword ==
    \A u \in UserIds :
        StampChanged(u) =>
            /\ IsRequest
            /\ resp'.op = "update_password"
            /\ resp'.status = 200
            /\ resp'.token.user_id = u
            /\ users'[u].updated_at = Timestamp(now)

StampAtCreation ==
    Len(users') # Len(users) =>
        /\ IsRequest /\ resp'.op = "auth_register" /\ resp'.status = 201
        /\ Len(users') = Len(users) + 1
        /\ users'[Len(users')].updated_at = Timestamp(now)

TokensKeptValid ==
    (IsRequest /\ resp'.op \in StampKeepingOps) =>
        /\ \A u \in UserIds : ~StampChanged(u)
        /\ \A token \in StampTokens :
               get_current_user(token, now)' = get_current_user(token, now)

(* C25: a stored user's updated_at changes only by that user's successful  *)
(* updatePassword, to the time of the request, and a new user gets it at   *)
(* registration; PATCH /me/profile, friend add and remove, post creation   *)
(* and like/dislike leave every updated_at as it was, and every token the  *)
(* guard accepted before such a request it accepts after it.               *)
C25_UpdatedAtFrame ==
    [][StampOnlyByPassword /\ StampAtCreation /\ TokensKeptValid]_vars

C25_Witness ==
    /\ resp.op = "patch_my_profile"
    /\ resp.status = 200
    /\ "updated_at" \in DOMAIN resp.arg
    /\ users[resp.token.user_id].phone = resp.arg.phone
    /\ users[resp.token.user_id].updated_at # resp.arg.updated_at
    /\ get_current_user(resp.token, now).kind = "ok"

----------------------------------------------------------------------------
(* updatePassword with a wrong old password *)

Mismatch(plain, stored) == stored # <<"$2b$", Truncate(plain)>>

WrongOldPassword ==
    /\ IsRequest
    /\ resp'.op = "update_password"
    /\ get_current_user(resp'.token, now).kind = "ok"
    /\ Mismatch(resp'.arg.oldPassword, users[resp'.token.user_id].password)

WrongOldRefused ==
    WrongOldPassword =>
        /\ IF MeetsPolicy(resp'.arg.newPassword)
           THEN resp'.status = 403 /\ resp'.reason = "invalid old password"
           ELSE resp'.status = 400 /\ resp'.reason = "invalid password"
        /\ resp'.body = NoBody
        /\ users' = users
        /\ \A token \in CredTokens :
               token = resp'.token => get_current_user(token, now)'.kind = "ok"

ForbiddenOnlyForWrongOld ==
    (IsRequest /\ resp'.op = "update_password" /\ resp'.status = 403) =>
        /\ WrongOldPassword
        /\ MeetsPolicy(resp'.arg.newPassword)

(* C26: POST /me/updatePassword by an authenticated user whose oldPassword *)
(* does not verify against the stored hash answers 403 "invalid old        *)
(* password" when the new password meets the policy and 400 "invalid       *)
(* password" when it does not; in both cases the stored users, hash and    *)
(* updated_at included, stay as they were and the guard still accepts the  *)
(* token; 403 is answered in no other case.                                *)
C26_WrongOldPassword == [][WrongOldRefused /\ ForbiddenOnlyForWrongOld]_vars

C26_Witness ==
    /\ resp.op = "update_password"
    /\ resp.status = 403
    /\ resp.arg.oldPassword = StrongB
    /\ users[resp.token.user_id].password = get_password_hash(StrongA)
    /\ users[resp.token.user_id].updated_at = Timestamp(0)
    /\ get_current_user(resp.token, now).kind = "ok"

====
